---- MODULE Spec2Model ----
(***************************************************************************)
(* Connection pooling and reconnection manager of the SESAME web API       *)
(* (src/web-api/main.py): SesameConnectionManager, perform_device_operation*)
(* and the HTTP handlers that call them.                                   *)
(*                                                                         *)
(* The server runs on one asyncio event loop: the code between two         *)
(* suspension points of a coroutine runs without interleaving.  Every      *)
(* action below is one such run: it starts where a request arrives or an   *)
(* awaited device call, sleep or lock wait completes, and ends at the next *)
(* await that really suspends (device I/O, asyncio.sleep, a contended      *)
(* lock) or at the handler's return.  The runs are written as operators on *)
(* a record s of the whole state, so that a caller's continuation after    *)
(* ensure_connection returns is part of the same step, as in the code.     *)
(*                                                                         *)
(* The device library (pysesameos2) is the environment: every awaited      *)
(* device call either returns or raises, chosen nondeterministically.      *)
(***************************************************************************)
EXTENDS Integers, Sequences, FiniteSets

(***************************************************************************)
(* Bounds of the model.                                                    *)
(***************************************************************************)
NumTasks == 2
\* requests served over one run of the server
MaxRequests == 2
\* largest max_attempts passed to a direct ensure_connection call
MaxAttemptsArg == 3
\* number of clock advances
MaxTicks == 1

(***************************************************************************)
(* Program constants.                                                      *)
(***************************************************************************)
\* main.py:36, default of SESAME_CONNECTION_TIMEOUT (seconds)
CONNECTION_TIMEOUT == 1800
\* main.py:37, default of SESAME_MAX_RECONNECT_ATTEMPTS
MAX_RECONNECT_ATTEMPTS == 5

Tasks == 1..NumTasks
NoTask == 0

\* Optional[float]: None is <<>>, a value x is <<x>>
None == <<>>
Some(x) == <<x>>

\* A scanned handle is represented by its productModel, the only attribute
\* the code branches on, and the productModel by its class under the tests
\* of main.py:243 and 253: "lock" is SS2 or SS4, "bot" is SesameBot1, and
\* "other" is any other CHProductModel
LockFamily == {"lock"}
BotFamily == {"bot"}
ProductModels == LockFamily \cup BotFamily \cup {"other"}
NoDevice == "None"

Operations == {"toggle", "lock", "unlock", "click"}

\* the clock is sampled in steps that show a connection at an age below
\* (0), at, and above CONNECTION_TIMEOUT
TickSteps == {CONNECTION_TIMEOUT, CONNECTION_TIMEOUT + 1}

VARIABLES
  device,           \* connection_manager.device
  is_connected,     \* connection_manager.is_connected
  connection_time,  \* connection_manager.connection_time
  holder,           \* task owning connection_lock (NoTask: unlocked)
  waiters,          \* FIFO queue of tasks suspended in connection_lock.acquire()
  now,              \* time.time()
  ticks,            \* clock advances so far
  requests,         \* requests started so far
  tk,               \* per request task: position, locals and history
  none_rejected     \* the installed pydantic rejects None for a "str = None" field

vars == <<device, is_connected, connection_time, holder, waiters, now, ticks,
          requests, tk, none_rejected>>

\* locals of a task with no request in progress
IdleTask ==
  [ pc |-> "idle", req |-> "none", operation |-> "none", caller |-> "none",
    max_attempts |-> 0, attempts |-> 0,
    connection_reused |-> FALSE, reconnect_attempts |-> 0,
    \* the returned result / response
    success |-> FALSE, http |-> 0, out_reused |-> FALSE, out_attempts |-> 0,
    established |-> FALSE, info_empty |-> FALSE,
    \* history of the current ensure_connection call: lock taken, returned,
    \* return value, is_connection_valid() when the lock was taken, and the
    \* numbers of scans, failed scans, connects and backoff sleeps
    entered |-> FALSE, returned |-> FALSE, ret |-> FALSE, validAtAcquire |-> FALSE,
    \* is_connection_valid() and is_connected at the moment the call returned
    validAtReturn |-> FALSE, connectedAtReturn |-> FALSE,
    nScan |-> 0, nScanFail |-> 0, nConnect |-> 0, nSleep |-> 0,
    \* history of the current request: is_connection_valid() at its start,
    \* ensure_connection calls, action invocations, what failed, the connects
    \* of a failed first ensure_connection, and whether device I/O or a write
    \* of the connection state followed an unsupported operation's ValueError
    validAtStart |-> FALSE, nEnsure |-> 0, firstEnsureFailed |-> FALSE,
    nAction |-> 0, firstActionFailed |-> FALSE, retryEntered |-> FALSE,
    retryActionFailed |-> FALSE,
    \* whether the task wrote the connection state without holding the lock
    unlockedWrite |-> FALSE,
    \* whether the task decided to reuse the session on a validity check made
    \* without holding the lock
    unlockedReuse |-> FALSE,
    firstConnects |-> 0, illegal |-> FALSE, ioAfterIllegal |-> FALSE ]

Cur ==
  [ device |-> device, is_connected |-> is_connected,
    connection_time |-> connection_time, holder |-> holder,
    waiters |-> waiters, now |-> now, tk |-> tk,
    none_rejected |-> none_rejected ]

Commit(s) ==
  /\ device' = s.device
  /\ is_connected' = s.is_connected
  /\ connection_time' = s.connection_time
  /\ holder' = s.holder
  /\ waiters' = s.waiters
  /\ tk' = s.tk
  /\ UNCHANGED none_rejected

\* The response models declare their optional fields as "str = None"
\* (main.py:50-52, 71-74).  What the model does with an explicit None for such
\* a field is the installed pydantic's choice and no file of the repository
\* fixes it: 1.x reads the annotation as Optional[str] and accepts the value,
\* 2.x keeps it as str and raises ValidationError.  It is the same for the
\* whole run of the server.
Init ==
  /\ device = NoDevice
  /\ is_connected = FALSE
  /\ connection_time = None
  /\ holder = NoTask
  /\ waiters = <<>>
  /\ now = 1    \* time.time(): seconds since the epoch, never 0
  /\ ticks = 0
  /\ requests = 0
  /\ tk = [t \in Tasks |-> IdleTask]
  /\ none_rejected \in BOOLEAN

(***************************************************************************)
(* SesameConnectionManager                                                 *)
(***************************************************************************)

\* is_connection_valid (main.py:85-95)
IsConnectionValid(s) ==
  IF ~s.is_connected \/ s.connection_time = None \/ s.connection_time = Some(0)
  THEN FALSE
  ELSE IF s.now - s.connection_time[1] > CONNECTION_TIMEOUT
       THEN FALSE
       ELSE TRUE

\* get_device_info (main.py:190-201): the empty dict when there is no handle
DeviceInfoEmpty(s) == s.device = NoDevice

\* "is_connected" of the snapshot, with the .get default of /connection
DeviceInfoConnected(s) == IF DeviceInfoEmpty(s) THEN FALSE ELSE s.is_connected

\* a write of is_connected / connection_time by task t (history: whether the
\* task had already raised ValueError for an unsupported operation, and
\* whether it wrote without holding connection_lock)
SetConnState(s, t, conn, time) ==
  [s EXCEPT !.is_connected = conn, !.connection_time = time,
            !.tk[t].ioAfterIllegal = @ \/ s.tk[t].illegal,
            !.tk[t].unlockedWrite = @ \/ s.holder # t]

\* task t suspends in an awaited call
Suspend(s, t, at) == [s EXCEPT !.tk[t].pc = at]

\* task t suspends in an awaited device call (with the same history)
IssueIO(s, t, at) ==
  [s EXCEPT !.tk[t].pc = at,
            !.tk[t].ioAfterIllegal = @ \/ s.tk[t].illegal]

\* variant: an exit path leaves "async with" without releasing the lock
ReleaseLeak(s, t) == s

\* asyncio.Lock.release at the end of "async with" (main.py:133, 179): the
\* first waiter's future is completed, and no later acquire can overtake it
Release(s, t) ==
  IF s.waiters = <<>>
  THEN [s EXCEPT !.holder = NoTask]
  ELSE [s EXCEPT !.holder = Head(s.waiters), !.waiters = Tail(s.waiters)]

\* asyncio.Lock.acquire finds the lock free (and nobody queued)
LockFree(s) == s.holder = NoTask /\ s.waiters = <<>>

(***************************************************************************)
(* ensure_connection (main.py:131-175) and its callers' continuations.     *)
(* EnsureReturn continues in the caller, and perform_device_operation's    *)
(* exception handler calls ensure_connection again: hence the recursion.   *)
(***************************************************************************)
RECURSIVE EnsureReturn(_, _, _)

\* variant: the loop condition off by one
WhileCondInclusive(attempts, max_attempts) == attempts <= max_attempts

\* the loop condition "while attempts < max_attempts" (main.py:136)
WhileCond(attempts, max_attempts) == attempts < max_attempts

\* "if attempts < max_attempts" before the backoff sleep (main.py:168)
RetryCond(attempts, max_attempts) == attempts < max_attempts

\* await device.connect() (main.py:148)
CallConnect(s, t) ==
  IssueIO([s EXCEPT !.tk[t].nConnect = @ + 1], t, "connect")

\* await CHBleManager().scan_by_address(...) (main.py:114)
CallScan(s, t) ==
  IssueIO([s EXCEPT !.tk[t].nScan = @ + 1], t, "scan")

\* variant: the cached handle is ignored and every attempt scans
GetOrCreateDeviceNoCache(s, t) == CallScan(s, t)

\* get_or_create_device (main.py:97-101) up to its first await, followed by
\* the connect of main.py:148 when the handle is cached
GetOrCreateDevice(s, t) ==
  IF s.device = NoDevice THEN CallScan(s, t) ELSE CallConnect(s, t)

\* variant: the loop reuses the connection on is_connected alone
EnsureIterStale(s, t) ==
  IF WhileCond(s.tk[t].attempts, s.tk[t].max_attempts)
  THEN IF s.is_connected
       THEN EnsureReturn(s, t, TRUE)
       ELSE GetOrCreateDevice(s, t)
  ELSE EnsureReturn(s, t, FALSE)

\* one pass through the head of the while loop (main.py:136-148)
EnsureIter(s, t) ==
  IF WhileCond(s.tk[t].attempts, s.tk[t].max_attempts)
  THEN IF IsConnectionValid(s)
       THEN EnsureReturn(s, t, TRUE)
       ELSE GetOrCreateDevice(s, t)
  ELSE EnsureReturn(s, t, FALSE)

\* variant: a failed attempt leaves the connection state as it was
EnsureFailKeepState(s, t) ==
  LET s1 == [s EXCEPT !.tk[t].attempts = @ + 1]
  IN IF RetryCond(s1.tk[t].attempts, s1.tk[t].max_attempts)
     THEN Suspend([s1 EXCEPT !.tk[t].nSleep = @ + 1], t, "sleep")
     ELSE EnsureReturn(s1, t, FALSE)

\* variant: the backoff sleep is left out
EnsureFailNoBackoff(s, t) ==
  LET s1 == SetConnState([s EXCEPT !.tk[t].attempts = @ + 1], t, FALSE, None)
  IN IF RetryCond(s1.tk[t].attempts, s1.tk[t].max_attempts)
     THEN EnsureIter(s1, t)
     ELSE EnsureReturn(s1, t, FALSE)

\* the except branch of the loop (main.py:160-173)
EnsureFail(s, t) ==
  LET s1 == SetConnState([s EXCEPT !.tk[t].attempts = @ + 1], t, FALSE, None)
  IN IF RetryCond(s1.tk[t].attempts, s1.tk[t].max_attempts)
     THEN Suspend([s1 EXCEPT !.tk[t].nSleep = @ + 1], t, "sleep")
     ELSE EnsureReturn(s1, t, FALSE)

\* variant: the success branch records no connection_time
EnsureSuccessNoTime(s, t) ==
  EnsureReturn(SetConnState(s, t, TRUE, s.connection_time), t, TRUE)

\* the success branch (main.py:153-158)
EnsureSuccess(s, t) ==
  EnsureReturn(SetConnState(s, t, TRUE, Some(s.now)), t, TRUE)

\* the body of ensure_connection once connection_lock is held (main.py:134)
EnsureEnter(s, t) ==
  EnsureIter([s EXCEPT !.tk[t].attempts = 0,
                       !.tk[t].entered = TRUE,
                       !.tk[t].validAtAcquire = IsConnectionValid(s)], t)

\* variant: the lock is taken without waiting for its holder
AcquireNoWait(s, t) == [s EXCEPT !.holder = t]

\* "async with self.connection_lock" (main.py:133, 179): taken at once when
\* free, else the task queues behind the holder
Acquire(s, t) ==
  IF LockFree(s)
  THEN [s EXCEPT !.holder = t]
  ELSE [s EXCEPT !.waiters = Append(@, t), !.tk[t].pc = "lock_wait"]

\* a call ensure_connection(m) made on behalf of caller
CallEnsure(s, t, caller, m) ==
  LET s1 == [s EXCEPT !.tk[t].caller = caller, !.tk[t].max_attempts = m,
                      !.tk[t].attempts = 0,
                      !.tk[t].entered = FALSE, !.tk[t].returned = FALSE,
                      !.tk[t].ret = FALSE, !.tk[t].validAtAcquire = FALSE,
                      !.tk[t].validAtReturn = FALSE,
                      !.tk[t].connectedAtReturn = FALSE,
                      !.tk[t].nScan = 0, !.tk[t].nScanFail = 0,
                      !.tk[t].nConnect = 0, !.tk[t].nSleep = 0,
                      !.tk[t].nEnsure = @ + 1]
      s2 == Acquire(s1, t)
  IN IF s2.holder = t THEN EnsureEnter(s2, t) ELSE s2

(***************************************************************************)
(* perform_device_operation (main.py:214-349)                              *)
(***************************************************************************)
LockOps == {"toggle", "lock", "unlock"}
BotOps == {"click"}

\* the dispatch of main.py:243-257: invoke the action, raise ValueError, or
\* fall through both branches
Dispatch(model, op) ==
  IF model = NoDevice THEN "raise"
  ELSE IF model \in LockFamily
       THEN IF op \in LockOps THEN "invoke" ELSE "unsupported"
       ELSE IF model \in BotFamily
            THEN IF op \in BotOps THEN "invoke" ELSE "unsupported"
            ELSE "skip"

\* the dispatch of the retry (main.py:303-312), which has no else branches
RetryDispatch(model, op) ==
  IF model = NoDevice THEN "raise"
  ELSE IF model \in LockFamily
       THEN IF op \in LockOps THEN "invoke" ELSE "skip"
       ELSE IF model \in BotFamily
            THEN IF op \in BotOps THEN "invoke" ELSE "skip"
            ELSE "skip"

\* variant: the endpoint returns the result without looking at "success"
OpResultUnchecked(s, t, ok, reused, attempts) ==
  [s EXCEPT !.tk[t].pc = "done", !.tk[t].success = ok,
            !.tk[t].http = 200,
            !.tk[t].out_reused = reused, !.tk[t].out_attempts = attempts]

\* the result dict returned to the endpoint, which answers 200 or raises
\* HTTPException(500) (main.py:396-401, 409-414, 422-427, 435-440)
OpResult(s, t, ok, reused, attempts) ==
  [s EXCEPT !.tk[t].pc = "done", !.tk[t].success = ok,
            !.tk[t].http = IF ok THEN 200 ELSE 500,
            !.tk[t].out_reused = reused, !.tk[t].out_attempts = attempts]

\* the failure result of main.py:344-349
OpFailure(s, t) ==
  OpResult(s, t, FALSE, s.tk[t].connection_reused, s.tk[t].reconnect_attempts)

\* await device.<operation>(history_tag=...) (main.py:245-255, 305-312)
CallAction(s, t, at) ==
  IssueIO([s EXCEPT !.tk[t].nAction = @ + 1], t, at)

\* after the retry's ensure_connection returned (main.py:299-342)
AfterEnsureRetry(s, t, ret) ==
  IF ~ret THEN OpFailure(s, t)
  ELSE LET d == RetryDispatch(s.device, s.tk[t].operation)
       IN IF d = "invoke" THEN CallAction(s, t, "retry_action")
          ELSE IF d = "raise" THEN OpFailure(s, t)
          ELSE OpResult(s, t, TRUE, FALSE, s.tk[t].reconnect_attempts + 1)

\* the condition under which the handler reconnects and retries (main.py:292)
ShouldRetry(reused, attempts) ==
  ~reused /\ attempts < MAX_RECONNECT_ATTEMPTS

\* the exception handler (main.py:288-299)
OpExcept(s, t) ==
  IF ShouldRetry(s.tk[t].connection_reused, s.tk[t].reconnect_attempts)
  THEN CallEnsure(SetConnState([s EXCEPT !.tk[t].retryEntered = TRUE],
                               t, FALSE, None),
                  t, "retry", MAX_RECONNECT_ATTEMPTS)
  ELSE OpFailure(s, t)

\* the first dispatch and, when nothing is awaited, the result (main.py:239-286)
OpAction(s, t) ==
  LET d == Dispatch(s.device, s.tk[t].operation)
  IN IF d = "invoke" THEN CallAction(s, t, "action")
     ELSE IF d = "unsupported" THEN OpExcept([s EXCEPT !.tk[t].illegal = TRUE], t)
     ELSE IF d = "raise" THEN OpExcept(s, t)
     ELSE OpResult(s, t, TRUE, s.tk[t].connection_reused,
                   s.tk[t].reconnect_attempts)

\* after the first ensure_connection returned (main.py:236-237)
AfterEnsureFirst(s, t, ret, connects) ==
  IF ret THEN OpAction(s, t)
  ELSE OpExcept([s EXCEPT !.tk[t].firstEnsureFailed = TRUE,
                          !.tk[t].firstConnects = connects], t)

\* variant: ensure_connection is called although the connection is valid
OpStartAlwaysEnsure(s, t) ==
  IF IsConnectionValid(s)
  THEN CallEnsure([s EXCEPT !.tk[t].connection_reused = TRUE,
                            !.tk[t].validAtStart = TRUE], t, "first",
                  MAX_RECONNECT_ATTEMPTS)
  ELSE CallEnsure([s EXCEPT !.tk[t].reconnect_attempts = 1], t, "first",
                  MAX_RECONNECT_ATTEMPTS)

\* the start of perform_device_operation (main.py:225-237)
OpStart(s, t) ==
  IF IsConnectionValid(s)
  THEN OpAction([s EXCEPT !.tk[t].connection_reused = TRUE,
                          !.tk[t].validAtStart = TRUE,
                          !.tk[t].unlockedReuse = s.holder # t], t)
  ELSE CallEnsure([s EXCEPT !.tk[t].reconnect_attempts = 1], t, "first",
                  MAX_RECONNECT_ATTEMPTS)

(***************************************************************************)
(* The other handlers                                                      *)
(***************************************************************************)
\* a handler's response
Respond(s, t, ok) ==
  [s EXCEPT !.tk[t].pc = "done", !.tk[t].success = ok,
            !.tk[t].http = IF ok THEN 200 ELSE 500]

\* GET /status once a connection is there (main.py:457-489)
StatusRead(s, t) == Respond(s, t, s.device # NoDevice)

\* variant: the status query calls ensure_connection unconditionally
StatusStartAlwaysEnsure(s, t) ==
  CallEnsure([s EXCEPT !.tk[t].validAtStart = IsConnectionValid(s)], t,
             "status", MAX_RECONNECT_ATTEMPTS)

\* GET /status (main.py:450-455)
StatusStart(s, t) ==
  IF ~IsConnectionValid(s)
  THEN CallEnsure(s, t, "status", MAX_RECONNECT_ATTEMPTS)
  ELSE StatusRead([s EXCEPT !.tk[t].validAtStart = TRUE,
                            !.tk[t].unlockedReuse = s.holder # t], t)

\* POST /connect after ensure_connection returned (main.py:501-519)
AfterEnsureConnect(s, t, ret) ==
  Respond([s EXCEPT !.tk[t].established = ret], t, ret)

\* ConnectionResponse(**result) (main.py:68-74, 541, 567): the model is built,
\* or ValidationError is raised into the handler's "except Exception", which
\* answers 500 (main.py:543-545, 569-571)
ConnectionResponseOk(s, hasNone) == ~(hasNone /\ s.none_rejected)

\* GET /connection (main.py:555-571): device_id and product_model are None
\* when there is no handle, connection_time is None when none is recorded
ConnectionInfo(s, t) ==
  Respond([s EXCEPT !.tk[t].established = DeviceInfoConnected(s),
                    !.tk[t].info_empty = DeviceInfoEmpty(s)], t,
          ConnectionResponseOk(s, DeviceInfoEmpty(s) \/ s.connection_time = None))

\* the end of disconnect() and of POST /disconnect (main.py:530-545), whose
\* result carries None for device_id, product_model and connection_time
DisconnectReturn(s, t) ==
  Respond(Release(s, t), t, ConnectionResponseOk(s, TRUE))

\* disconnect() once connection_lock is held (main.py:180-182)
DisconnectEnter(s, t) ==
  IF s.device # NoDevice /\ s.is_connected
  THEN IssueIO(s, t, "disconnect")
  ELSE DisconnectReturn(s, t)

\* the finally clause after device.disconnect() returned or raised
\* (main.py:184-188)
DisconnectFinally(s, t) ==
  DisconnectReturn(SetConnState(s, t, FALSE, None), t)

\* disconnect() (main.py:177-179)
CallDisconnect(s, t) ==
  LET s2 == Acquire([s EXCEPT !.tk[t].caller = "disconnect"], t)
  IN IF s2.holder = t THEN DisconnectEnter(s2, t) ELSE s2

\* ensure_connection's frame is gone: its locals and the history of the call
\* are dropped (kept only where the call was the whole request)
LeaveCall(s, t) ==
  [s EXCEPT !.tk[t].max_attempts = 0, !.tk[t].attempts = 0,
            !.tk[t].entered = FALSE, !.tk[t].validAtAcquire = FALSE,
            !.tk[t].nScan = 0, !.tk[t].nScanFail = 0,
            !.tk[t].nConnect = 0, !.tk[t].nSleep = 0]

\* ensure_connection's return: the lock is released on leaving "async with",
\* and the caller continues
EnsureReturn(s, t, ret) ==
  LET c == s.tk[t].caller
      s0 == Release([s EXCEPT !.tk[t].returned = TRUE, !.tk[t].ret = ret,
                              !.tk[t].validAtReturn = IsConnectionValid(s),
                              !.tk[t].connectedAtReturn = s.is_connected], t)
      s1 == IF c = "direct" THEN s0 ELSE LeaveCall(s0, t)
  IN IF c = "first" THEN AfterEnsureFirst(s1, t, ret, s.tk[t].nConnect)
     ELSE IF c = "retry" THEN AfterEnsureRetry(s1, t, ret)
     ELSE IF c = "status" THEN (IF ret THEN StatusRead(s1, t) ELSE Respond(s1, t, FALSE))
     ELSE IF c = "connect" THEN AfterEnsureConnect(s1, t, ret)
     ELSE Respond(s1, t, ret)

(***************************************************************************)
(* Actions: a request arrives, or an awaited call completes.               *)
(***************************************************************************)
\* A request is served by a task of its own; tasks are interchangeable, so
\* the request takes the first free one.
NewRequest(t, kind) ==
  /\ tk[t].pc = "idle"
  /\ \A u \in Tasks : u < t => tk[u].pc # "idle"
  /\ requests < MaxRequests
  /\ requests' = requests + 1
  /\ UNCHANGED <<now, ticks>>

Begin(t, kind, op) == [Cur EXCEPT !.tk[t].req = kind, !.tk[t].operation = op]

\* POST /toggle, /lock, /unlock, /click (main.py:388-440)
StartOperation(t) ==
  \E op \in Operations :
    /\ NewRequest(t, "op")
    /\ Commit(OpStart(Begin(t, "op", op), t))

\* GET /status (main.py:443)
StartStatus(t) ==
  /\ NewRequest(t, "status")
  /\ Commit(StatusStart(Begin(t, "status", "none"), t))

\* POST /connect (main.py:492-501)
StartConnect(t) ==
  /\ NewRequest(t, "connect")
  /\ Commit(CallEnsure(Begin(t, "connect", "none"), t, "connect",
                       MAX_RECONNECT_ATTEMPTS))

\* POST /disconnect (main.py:522-530)
StartDisconnect(t) ==
  /\ NewRequest(t, "disconnect")
  /\ Commit(CallDisconnect(Begin(t, "disconnect", "none"), t))

\* GET /connection (main.py:548)
StartConnectionInfo(t) ==
  /\ NewRequest(t, "connection")
  /\ Commit(ConnectionInfo(Begin(t, "connection", "none"), t))

\* a direct call connection_manager.ensure_connection(m)
StartEnsure(t) ==
  \E m \in 0..MaxAttemptsArg :
    /\ NewRequest(t, "ensure")
    /\ Commit(CallEnsure(Begin(t, "ensure", "none"), t, "direct", m))

\* a queued task is handed connection_lock and resumes inside "async with"
LockResume(t) ==
  /\ tk[t].pc = "lock_wait"
  /\ holder = t
  /\ Commit(IF tk[t].caller = "disconnect"
            THEN DisconnectEnter(Cur, t)
            ELSE EnsureEnter(Cur, t))
  /\ UNCHANGED <<now, ticks, requests>>

\* scan_by_address returns a device, returns None or raises (main.py:114-129)
ScanDone(t) ==
  /\ tk[t].pc = "scan"
  /\ \/ \E m \in ProductModels :
          Commit(CallConnect([Cur EXCEPT !.device = m], t))
     \/ Commit(EnsureFail([Cur EXCEPT !.tk[t].nScanFail = @ + 1], t))
  /\ UNCHANGED <<now, ticks, requests>>

\* device.connect() returns or raises (main.py:148-151)
ConnectDone(t) ==
  /\ tk[t].pc = "connect"
  /\ \/ Commit(IssueIO(Cur, t, "login"))
     \/ Commit(EnsureFail(Cur, t))
  /\ UNCHANGED <<now, ticks, requests>>

\* device.wait_for_login() returns or raises (main.py:151-158)
LoginDone(t) ==
  /\ tk[t].pc = "login"
  /\ \/ Commit(EnsureSuccess(Cur, t))
     \/ Commit(EnsureFail(Cur, t))
  /\ UNCHANGED <<now, ticks, requests>>

\* asyncio.sleep(2) is over (main.py:170)
SleepDone(t) ==
  /\ tk[t].pc = "sleep"
  /\ Commit(EnsureIter(Cur, t))
  /\ UNCHANGED <<now, ticks, requests>>

\* the first device action returns or raises (main.py:245-288)
ActionDone(t) ==
  /\ tk[t].pc = "action"
  /\ \/ Commit(OpResult(Cur, t, TRUE, tk[t].connection_reused,
                        tk[t].reconnect_attempts))
     \/ Commit(OpExcept([Cur EXCEPT !.tk[t].firstActionFailed = TRUE], t))
  /\ UNCHANGED <<now, ticks, requests>>

\* variant: a failed retry goes through the exception handler again
RetryActionDoneAgain(t) ==
  /\ tk[t].pc = "retry_action"
  /\ \/ Commit(OpResult(Cur, t, TRUE, FALSE, tk[t].reconnect_attempts + 1))
     \/ Commit(OpExcept([Cur EXCEPT !.tk[t].retryActionFailed = TRUE], t))
  /\ UNCHANGED <<now, ticks, requests>>

\* the retried device action returns or raises (main.py:305-349)
RetryActionDone(t) ==
  /\ tk[t].pc = "retry_action"
  /\ \/ Commit(OpResult(Cur, t, TRUE, FALSE, tk[t].reconnect_attempts + 1))
     \/ Commit(OpFailure([Cur EXCEPT !.tk[t].retryActionFailed = TRUE], t))
  /\ UNCHANGED <<now, ticks, requests>>

\* device.disconnect() returns or raises (main.py:182-188)
DisconnectDone(t) ==
  /\ tk[t].pc = "disconnect"
  /\ Commit(DisconnectFinally(Cur, t))
  /\ UNCHANGED <<now, ticks, requests>>

\* the response is sent and the task ends
Finish(t) ==
  /\ tk[t].pc = "done"
  /\ tk' = [tk EXCEPT ![t] = IdleTask]
  /\ UNCHANGED <<device, is_connected, connection_time, holder, waiters,
                 now, ticks, requests, none_rejected>>

\* time passes
Tick ==
  \E d \in TickSteps :
    /\ ticks < MaxTicks
    /\ ticks' = ticks + 1
    /\ now' = now + d
    /\ UNCHANGED <<device, is_connected, connection_time, holder, waiters,
                   requests, tk, none_rejected>>

Next ==
  \/ \E t \in Tasks :
       \/ StartOperation(t)
       \/ StartStatus(t)
       \/ StartConnect(t)
       \/ StartDisconnect(t)
       \/ StartConnectionInfo(t)
       \/ LockResume(t)
       \/ ScanDone(t)
       \/ ConnectDone(t)
       \/ LoginDone(t)
       \/ SleepDone(t)
       \/ ActionDone(t)
       \/ RetryActionDone(t)
       \/ DisconnectDone(t)
       \/ Finish(t)
  \/ Tick

Spec == Init /\ [][Next]_vars

(***************************************************************************)
(* The server under fair scheduling.  The event loop resumes every task    *)
(* whose awaited call has completed, and every awaited device call, sleep  *)
(* and lock hand-over completes: the one continuation a suspended task has *)
(* is weakly fair.  Nothing obliges a new request to arrive or the clock   *)
(* to advance.                                                             *)
(***************************************************************************)
Resume(t) ==
  \/ LockResume(t)
  \/ ScanDone(t)
  \/ ConnectDone(t)
  \/ LoginDone(t)
  \/ SleepDone(t)
  \/ ActionDone(t)
  \/ RetryActionDone(t)
  \/ DisconnectDone(t)

\* task t is suspended inside a request
Suspended(t) == tk[t].pc \notin {"idle", "done"}

\* the continuation of task t can run: the call it awaits completes, and a
\* task queued for the lock runs once the lock has been handed to it.
\* On every reachable state this is ENABLED <<Resume(t)>>_vars.
Runnable(t) == Suspended(t) /\ (tk[t].pc = "lock_wait" => holder = t)

\* every task serves one request, within the lifetime of a session
NextFair ==
  \E t \in Tasks :
    \/ StartOperation(t)
    \/ StartStatus(t)
    \/ StartConnect(t)
    \/ StartDisconnect(t)
    \/ StartConnectionInfo(t)
    \/ Resume(t)

\* Weak fairness of each task's continuation, WF_vars(Resume(t)), written
\* out with Runnable(t) for the enabling condition.
SpecFair ==
  /\ Init /\ [][NextFair]_vars
  /\ \A t \in Tasks : ([]<>(~Runnable(t))) \/ ([]<><<Resume(t)>>_vars)

(***************************************************************************)
(* The connection manager called directly: from the initial state every    *)
(* task makes one call, ensure_connection(m) with any m or disconnect(),   *)
(* the calls run in parallel, and the clock advances.  The history of each *)
(* call stays in its task's record.                                        *)
(***************************************************************************)
NextManager ==
  \/ \E t \in Tasks :
       \/ StartEnsure(t)
       \/ StartDisconnect(t)
       \/ LockResume(t)
       \/ ScanDone(t)
       \/ ConnectDone(t)
       \/ LoginDone(t)
       \/ SleepDone(t)
       \/ DisconnectDone(t)
  \/ Tick

SpecManager == Init /\ [][NextManager]_vars

(***************************************************************************)
(* Properties                                                              *)
(***************************************************************************)
RECURSIVE SumOver(_, _)
SumOver(f, S) ==
  IF S = {} THEN 0
  ELSE LET x == CHOOSE y \in S : TRUE IN f[x] + SumOver(f, S \ {x})

OpDone(t) == tk[t].req = "op" /\ tk[t].pc = "done"

\* an action the claimed contract forbids for the connected product family
IllegalFor(model, op) ==
  \/ model \in LockFamily /\ op \in BotOps
  \/ model \in BotFamily /\ op \in LockOps

\* C1: when the action of an operation request fails, the reconnect-and-retry
\* cycle is entered if and only if the action ran on a reused session
\* (is_connection_valid() at the start of the request); when the session was
\* freshly established in the request, the failure is followed by no further
\* ensure_connection call and no second action invocation.
C1_RetryIffReusedFailed ==
  \A t \in Tasks : (tk[t].req = "op" /\ tk[t].firstActionFailed) =>
    /\ tk[t].retryEntered <=> tk[t].validAtStart
    /\ ~tk[t].validAtStart => (tk[t].nEnsure <= 1 /\ tk[t].nAction <= 1)

\* C2: when the session is not valid at the start of an operation request and
\* ensure_connection returns false, the request has failed with success=false
\* without a second ensure_connection call, having made at most
\* MAX_RECONNECT_ATTEMPTS connect calls.
C2_NoSecondEnsureAfterFailure ==
  \A t \in Tasks : (tk[t].req = "op" /\ tk[t].firstEnsureFailed) =>
    /\ tk[t].pc = "done"
    /\ ~tk[t].success
    /\ tk[t].nEnsure = 1
    /\ tk[t].firstConnects + tk[t].nConnect <= MAX_RECONNECT_ATTEMPTS

\* C3: an operation request for an action that is illegal for the connected
\* device's product family never returns success=true.
C3_IllegalActionFails ==
  \A t \in Tasks :
    (OpDone(t) /\ IllegalFor(device, tk[t].operation)) => ~tk[t].success

\* C4: once the legality check of a request has failed, the request issues no
\* device call (scan, connect, wait_for_login, action) and writes neither
\* is_connected nor connection_time.
C4_NoIOAfterIllegal ==
  \A t \in Tasks : tk[t].illegal => ~tk[t].ioAfterIllegal

\* C5: a call ensure_connection(max_attempts) invokes device.connect() at
\* most max_attempts times, at every moment of the call and at its return.
C5_ConnectsBounded ==
  \A t \in Tasks : tk[t].nConnect <= tk[t].max_attempts

C5_Witness ==
  \E t \in Tasks :
    /\ tk[t].caller = "direct" /\ tk[t].returned /\ ~tk[t].ret
    /\ tk[t].max_attempts = MaxAttemptsArg
    /\ tk[t].nConnect = tk[t].max_attempts

\* inside ensure_connection's scan / connect / wait_for_login / backoff
InConnectSequence(t) == tk[t].pc \in {"scan", "connect", "login", "sleep"}

\* C6: at most one task is inside a scan/connect/wait_for_login sequence, that
\* task holds connection_lock, and every other task that has called
\* ensure_connection and not returned has issued no device call of its own:
\* it waits for the lock.
C6_OneConnectSequence ==
  \A t \in Tasks : InConnectSequence(t) =>
    /\ holder = t
    /\ \A u \in Tasks \ {t} :
         /\ ~InConnectSequence(u)
         /\ (tk[u].nEnsure > 0 /\ tk[u].caller # "none" /\ ~tk[u].returned
             /\ tk[u].pc # "done")
              => (tk[u].pc = "lock_wait" /\ tk[u].nConnect = 0 /\ tk[u].nScan = 0)

C6_Witness ==
  \E t, u \in Tasks :
    /\ t # u
    /\ tk[t].pc = "connect" /\ tk[t].req = "op" /\ tk[t].retryEntered
    /\ tk[u].pc = "lock_wait" /\ tk[u].req = "status"

ScansTotal == SumOver([t \in Tasks |-> tk[t].nScan], Tasks)
ScansFailed == SumOver([t \in Tasks |-> tk[t].nScanFail], Tasks)

\* C7 as stated: N parallel ensure_connection calls from the initial state
\* invoke scan_by_address at most once in total.
C7_ScanAtMostOnce == ScansTotal <= 1

\* C7 as amended: the calls invoke scan_by_address only while no handle is
\* cached, so at most one scan succeeds and the total number of scans is at
\* most one more than the number of failed scans.
C7_ScanOnlyWithoutHandle ==
  /\ ScansTotal <= ScansFailed + 1
  /\ device # NoDevice => \A t \in Tasks : tk[t].pc # "scan"

C7_Witness ==
  /\ ScansFailed >= 1
  /\ ScansTotal = ScansFailed + 1
  /\ device # NoDevice
  /\ \A t \in Tasks : tk[t].returned

\* C8: is_connection_valid() is true if and only if is_connected is true and
\* now - connection_time < CONNECTION_TIMEOUT.
C8_ValidIffWithinTimeout ==
  IsConnectionValid(Cur) <=>
    /\ is_connected
    /\ connection_time # None
    /\ now - connection_time[1] < CONNECTION_TIMEOUT

\* C9: when the connection is valid at the moment a call
\* ensure_connection(max_attempts) takes the lock, the call returns true in
\* the same step, for every max_attempts, with no scan, connect or backoff
\* sleep and with the handle, is_connected and connection_time unchanged.
C9_ValidReturnsTrue ==
  [][\A t \in Tasks :
       (tk'[t].caller = "direct" /\ tk'[t].validAtAcquire /\ ~tk[t].validAtAcquire)
         => /\ tk'[t].returned /\ tk'[t].ret
            /\ tk'[t].nScan = 0 /\ tk'[t].nConnect = 0 /\ tk'[t].nSleep = 0
            /\ UNCHANGED <<device, is_connected, connection_time>>]_vars

\* a direct call that took the lock with no valid connection and returned true
ConnectedByCall(t) ==
  /\ tk[t].caller = "direct" /\ tk[t].returned /\ tk[t].ret
  /\ ~tk[t].validAtAcquire

\* C10 as stated: when the first k attempts of ensure_connection(m) fail and
\* attempt k+1 succeeds, connect has been invoked exactly k+1 times and
\* exactly k backoff sleeps have occurred.
C10_ConnectsEqualAttempts ==
  \A t \in Tasks : ConnectedByCall(t) =>
    /\ tk[t].nConnect = tk[t].attempts + 1
    /\ tk[t].nSleep = tk[t].attempts

\* C10 as amended: the call returns true after k < m failed attempts with
\* exactly k backoff sleeps, and connect has been invoked once per attempt
\* that got past the scan: k+1 times less the attempts that failed in
\* scan_by_address.
C10_ConnectsPerAttemptPastScan ==
  \A t \in Tasks : ConnectedByCall(t) =>
    /\ tk[t].attempts < tk[t].max_attempts
    /\ tk[t].nConnect = tk[t].attempts + 1 - tk[t].nScanFail
    /\ tk[t].nSleep = tk[t].attempts

C10_Witness ==
  \E t \in Tasks :
    /\ ConnectedByCall(t)
    /\ tk[t].max_attempts = MaxAttemptsArg
    /\ tk[t].attempts = MaxAttemptsArg - 1
    /\ tk[t].nScanFail = 0
    /\ tk[t].nConnect = MaxAttemptsArg
    /\ tk[t].nSleep = MaxAttemptsArg - 1

\* C11: in a call ensure_connection(m), every failed attempt leaves
\* is_connected false and connection_time None; the backoff sleep follows a
\* failed attempt exactly when attempts remain; and the call that returns
\* false after failed attempts has made m attempts and m-1 backoff sleeps and
\* returns with the connection state cleared.
C11_FailedAttemptsClearAndBackOff ==
  [][\A t \in Tasks : tk'[t].caller = "direct" =>
       /\ tk'[t].attempts > tk[t].attempts =>
            /\ ~is_connected' /\ connection_time' = None
            /\ (tk'[t].pc = "sleep") <=> (tk'[t].attempts < tk'[t].max_attempts)
            /\ tk'[t].nSleep = tk[t].nSleep
                  + (IF tk'[t].attempts < tk'[t].max_attempts THEN 1 ELSE 0)
       /\ (tk'[t].returned /\ ~tk[t].returned /\ ~tk'[t].ret
            /\ tk'[t].attempts >= 1) =>
            /\ tk'[t].attempts = tk'[t].max_attempts
            /\ tk'[t].nSleep = tk'[t].max_attempts - 1
            /\ ~is_connected' /\ connection_time' = None]_vars

\* a call with m = MaxAttemptsArg that found an expired connection, failed
\* every attempt and returned false
C11_Witness ==
  \E t \in Tasks :
    /\ tk[t].caller = "direct" /\ tk[t].returned /\ ~tk[t].ret
    /\ tk[t].max_attempts = MaxAttemptsArg
    /\ tk[t].attempts = MaxAttemptsArg
    /\ tk[t].nSleep = MaxAttemptsArg - 1
    /\ ticks > 0
    /\ ~is_connected /\ connection_time = None

\* the step in which task t's disconnect() and its handler return
DisconnectReturns(t) ==
  /\ tk'[t].req = "disconnect" /\ tk'[t].pc = "done" /\ tk[t].pc # "done"

\* C12: when disconnect() returns, is_connected is false and connection_time
\* is None, whether or not device.disconnect() raised; is_connection_valid()
\* is then false and get_device_info() reports is_connected false; and POST
\* /disconnect answers 200.
C12_DisconnectClearsAndAnswers200 ==
  [][\A t \in Tasks : DisconnectReturns(t) =>
       /\ ~is_connected' /\ connection_time' = None
       /\ ~IsConnectionValid(Cur)'
       /\ ~DeviceInfoConnected(Cur)'
       /\ tk'[t].http = 200]_vars

\* C13: a finished operation request whose first action invocation failed has
\* reconnected and, where the reconnection succeeded, invoked the action a
\* second time; it fails only if the reconnection or the second invocation
\* failed, and otherwise returns success=true with reconnect_attempts >= 1
\* after exactly two invocations.  This covers the reused session.
C13_FirstFailureRetriedOnce ==
  \A t \in Tasks : (OpDone(t) /\ tk[t].firstActionFailed) =>
    /\ tk[t].retryEntered
    /\ tk[t].ret => tk[t].nAction = 2
    /\ tk[t].success => tk[t].out_attempts >= 1
    /\ ~tk[t].success => (~tk[t].ret \/ tk[t].nAction = 2)

\* C14: no request invokes the device action or calls ensure_connection more
\* than twice, and a request whose action failed on both invocations returns
\* success=false.
C14_NoSecondRetryRound ==
  \A t \in Tasks :
    /\ tk[t].nAction <= 2
    /\ tk[t].nEnsure <= 2
    /\ (tk[t].firstActionFailed /\ tk[t].retryActionFailed) =>
         /\ tk[t].pc = "done" /\ ~tk[t].success /\ tk[t].http = 500
         /\ tk[t].nAction = 2

\* a request that connected, failed its action, reconnected and failed again
C14_Witness ==
  \E t \in Tasks :
    /\ OpDone(t) /\ tk[t].firstActionFailed /\ tk[t].retryActionFailed
    /\ tk[t].nAction = 2 /\ tk[t].nEnsure = 2 /\ ~tk[t].success

\* C15: every failure inside perform_device_operation ends in a returned
\* result: a request whose reconnection failed, whose retried action failed,
\* or whose action failed with no retry has finished with success=false; and
\* the endpoint answers 200 exactly for success=true and 500 exactly for
\* success=false.
C15_FailuresBecomeResults ==
  \A t \in Tasks : tk[t].req = "op" =>
    /\ tk[t].pc = "done" =>
         /\ tk[t].success <=> tk[t].http = 200
         /\ ~tk[t].success <=> tk[t].http = 500
    /\ (\/ tk[t].retryActionFailed
        \/ tk[t].retryEntered /\ tk[t].returned /\ ~tk[t].ret
        \/ tk[t].firstActionFailed /\ ~tk[t].retryEntered) =>
         /\ tk[t].pc = "done" /\ ~tk[t].success /\ tk[t].http = 500

\* a request whose first connection and whose reconnection both failed
C15_Witness ==
  \E t \in Tasks :
    /\ OpDone(t) /\ tk[t].firstEnsureFailed /\ tk[t].retryEntered
    /\ tk[t].returned /\ ~tk[t].ret
    /\ ~tk[t].success /\ tk[t].http = 500

\* the happy path: the request's first action invocation succeeded and its
\* exception handler was never entered
HappyPath(t) ==
  /\ OpDone(t) /\ tk[t].success
  /\ tk[t].nAction = 1 /\ ~tk[t].firstActionFailed /\ ~tk[t].retryEntered

\* C16: a request on the happy path returns reconnect_attempts = 0, whether
\* its session was reused or freshly connected during the request.
C16_HappyPathZeroAttempts ==
  \A t \in Tasks : HappyPath(t) => tk[t].out_attempts = 0

\* C17: an operation request that found is_connection_valid() true at its
\* start reaches its first action invocation without an ensure_connection
\* call (hence without a connect); a result produced with no
\* ensure_connection call in the request carries connection_reused=true, and
\* a result produced after one carries connection_reused=false.
C17_ReusedIffNoConnectionAttempt ==
  \A t \in Tasks : tk[t].req = "op" =>
    /\ (tk[t].validAtStart /\ tk[t].pc = "action") =>
         /\ tk[t].nEnsure = 0 /\ tk[t].nConnect = 0
         /\ tk[t].connection_reused
    /\ tk[t].pc = "done" => (tk[t].out_reused <=> tk[t].nEnsure = 0)

\* one finished request that reused the session and one that connected
C17_Witness ==
  \E t, u \in Tasks :
    /\ OpDone(t) /\ tk[t].validAtStart /\ tk[t].nEnsure = 0
    /\ tk[t].nAction = 1 /\ tk[t].out_reused
    /\ OpDone(u) /\ tk[u].nEnsure >= 1 /\ ~tk[u].out_reused

\* C18: a status query invokes no device action, calls ensure_connection at
\* most once and only when is_connection_valid() was false at its start, and
\* when that call returns false it has answered 500 with no further call.
C18_StatusReadOnly ==
  \A t \in Tasks : tk[t].req = "status" =>
    /\ tk[t].nAction = 0
    /\ tk[t].pc \notin {"action", "retry_action", "disconnect"}
    /\ tk[t].nEnsure <= 1
    /\ tk[t].nEnsure = 1 => ~tk[t].validAtStart
    /\ (tk[t].returned /\ ~tk[t].ret) =>
         /\ tk[t].pc = "done" /\ tk[t].http = 500 /\ tk[t].nEnsure = 1

\* a status query whose ensure_connection returned false
C18_Witness ==
  \E t \in Tasks :
    /\ tk[t].req = "status" /\ tk[t].pc = "done"
    /\ tk[t].nEnsure = 1 /\ tk[t].returned /\ ~tk[t].ret
    /\ tk[t].http = 500

\* the step that serves GET /connection in task t while no handle exists
ConnectionInfoWithoutHandle(t) ==
  /\ device = NoDevice
  /\ tk[t].pc = "idle" /\ tk'[t].req = "connection"

\* C19: while no handle exists, GET /connection gets the empty snapshot and
\* answers 200 with connection_established=false (and null device fields),
\* issuing no device call and leaving the handle, the connection state and
\* the lock as they were.
C19_ConnectionInfoBeforeConnect ==
  [][\A t \in Tasks : ConnectionInfoWithoutHandle(t) =>
       /\ tk'[t].pc = "done"
       /\ tk'[t].info_empty /\ ~tk'[t].established
       /\ tk'[t].http = 200
       /\ UNCHANGED <<device, is_connected, connection_time, holder,
                      waiters>>]_vars

\* C20: in every state, is_connected = TRUE implies that a device handle is
\* present and connection_time is present.
C20_ConnectedHasHandleAndTime ==
  is_connected => (device # NoDevice /\ connection_time # None)

\* connected again by the recovery path of an operation request while another
\* request is queued for the lock or finished
C20_Witness ==
  /\ is_connected /\ device # NoDevice /\ connection_time # None
  /\ \E t \in Tasks :
       /\ OpDone(t) /\ tk[t].retryEntered /\ tk[t].success
       /\ \E u \in Tasks \ {t} : tk[u].req = "disconnect" /\ tk[u].pc = "done"

\* C21: every write of is_connected and connection_time is made by the task
\* that holds connection_lock, and the handle is written (by the scan of
\* get_or_create_device) only by the holder.
C21_WritesUnderLock ==
  \A t \in Tasks :
    /\ ~tk[t].unlockedWrite
    /\ tk[t].pc = "scan" => holder = t

\* the step in which task t finds is_connection_valid() true at the start of
\* its operation request or status query and decides to reuse the session
DecidesReuse(t) == tk'[t].validAtStart /\ ~tk[t].validAtStart

\* C22: the validity check on which a request decides to reuse the session is
\* made by a task holding connection_lock, so that at the moment of the
\* decision no other task holds the lock (inside disconnect() or a
\* reconnect).
C22_ReuseDecidedUnderLock ==
  [][\A t \in Tasks : DecidesReuse(t) =>
       /\ ~tk'[t].unlockedReuse
       /\ holder \in {NoTask, t}]_vars

\* task t has a device action (toggle, lock, unlock, click) in flight
ActionInFlight(t) == tk[t].pc \in {"action", "retry_action"}

\* C23: disconnect() invokes device.disconnect() only when no other request
\* has a device action in flight on the handle.
C23_NoDisconnectDuringAction ==
  [][\A t \in Tasks :
       (tk'[t].pc = "disconnect" /\ tk[t].pc # "disconnect") =>
         \A u \in Tasks \ {t} : ~ActionInFlight(u)]_vars

\* C24: a call of ensure_connection that returned true returned in a state
\* with is_connected true and is_connection_valid() true, and a call that
\* returned false after a failed attempt returned with is_connected false.
C24_ReturnMatchesState ==
  \A t \in Tasks : tk[t].returned =>
    /\ tk[t].ret => (tk[t].connectedAtReturn /\ tk[t].validAtReturn)
    /\ (~tk[t].ret /\ (tk[t].caller # "direct" \/ tk[t].attempts >= 1)) =>
         ~tk[t].connectedAtReturn

\* one call returned true on a connection it made after the clock advanced,
\* another returned false
C24_Witness ==
  \E t, u \in Tasks :
    /\ tk[t].returned /\ tk[t].ret /\ tk[t].validAtReturn
    /\ tk[t].connectedAtReturn /\ ticks > 0
    /\ connection_time # None /\ connection_time[1] > 1
    /\ tk[u].returned /\ ~tk[u].ret /\ ~tk[u].connectedAtReturn

\* the connection is marked connected and has passed its timeout
Expired ==
  /\ is_connected /\ connection_time # None
  /\ now - connection_time[1] > CONNECTION_TIMEOUT

\* the step in which task t starts an operation request or a status query,
\* whose first statement evaluates is_connection_valid()
ChecksValidityAtStart(t) ==
  tk[t].pc = "idle" /\ tk'[t].req \in {"op", "status"}

\* C25: when is_connection_valid() detects that the connection has passed
\* its timeout, the connection state is cleared: is_connected is false and
\* connection_time is None afterwards, and get_device_info() does not report
\* is_connected true.
C25_ExpiryDetectionClears ==
  [][\A t \in Tasks : (Expired /\ ChecksValidityAtStart(t)) =>
       /\ ~is_connected' /\ connection_time' = None
       /\ ~DeviceInfoConnected(Cur)']_vars

\* C26: the handle is absent after disconnect() returned and after a failed
\* connection attempt, and connect() is invoked only on a handle that the
\* same attempt has just obtained from a scan, never on a handle cached from
\* an earlier session or attempt.
C26_HandleInvalidated ==
  [][\A t \in Tasks :
       /\ DisconnectReturns(t) => device' = NoDevice
       /\ tk'[t].attempts > tk[t].attempts => device' = NoDevice
       /\ (tk'[t].pc = "connect" /\ tk[t].pc # "connect") =>
            tk[t].pc = "scan"]_vars

\* C27: under fair scheduling, with every awaited device call returning or
\* raising, every request that has started returns its result, every task
\* that holds connection_lock releases it, every task queued for the lock
\* acquires it, no task is queued for a lock that it holds itself or that
\* nobody holds, and the attempt counter of a call never passes its budget.
C27_EveryCallTerminates ==
  /\ \A t \in Tasks : Suspended(t) ~> (tk[t].pc = "done")
  /\ \A t \in Tasks : (holder = t) ~> (holder # t)
  /\ \A t \in Tasks : (tk[t].pc = "lock_wait") ~> (holder = t)
  /\ [](\A i \in DOMAIN waiters : holder \notin {NoTask, waiters[i]})
  /\ [](\A t \in Tasks : tk[t].attempts <= tk[t].max_attempts)

\* an operation request queued for the lock behind a task that is in its
\* backoff sleep after a failed attempt
C27_Witness ==
  \E t, u \in Tasks :
    /\ t # u
    /\ tk[t].req = "op" /\ tk[t].pc = "lock_wait" /\ waiters = <<t>>
    /\ holder = u /\ tk[u].pc = "sleep"

\* C28: a result of perform_device_operation with success = true is
\* returned only when the device action was invoked during the request and
\* its last invocation completed without error.
C28_SuccessMeansActionDone ==
  \A t \in Tasks :
    (OpDone(t) /\ tk[t].success) =>
      /\ tk[t].nAction >= 1
      /\ ~tk[t].retryActionFailed
      /\ ~(tk[t].nAction = 1 /\ tk[t].firstActionFailed)

\* C29: while the device action of one request is in flight on a session
\* that is valid, no step of another operation request resets the connection
\* state or invokes connect() on the handle.
C29_NoResetDuringAction ==
  [][\A t, u \in Tasks :
       ( /\ t # u
         /\ ActionInFlight(u) /\ tk'[u] = tk[u]
         /\ IsConnectionValid(Cur)
         /\ tk[t].req = "op" /\ tk'[t] # tk[t] ) =>
           /\ is_connected'
           /\ connection_time' = connection_time
           /\ ~(tk'[t].pc = "connect" /\ tk[t].pc # "connect")]_vars

====
